---- MODULE Spec2Model ----
(***************************************************************************)
(* Employee Management System: the attendance ledger, the leave-request    *)
(* workflow and the employee records, as the Flask handlers of app.py,     *)
(* employee_attendance.py, admin_attendance.py, employee_leave.py,         *)
(* admin_leave_requests.py and employee_management.py drive them against   *)
(* the remote tables `attendance', `leave_requests' and `employees'.       *)
(*                                                                         *)
(* In SpecAttendance and SpecLeave each handler is one atomic action:      *)
(* requests are handled one at a time.  SpecAttendanceRace and             *)
(* SpecLeaveRace run two workers side by side, a step being one call to    *)
(* the remote store.  SpecNotifications runs the admin's leave handlers    *)
(* under every outcome of mail delivery.  SpecLeaveReports and             *)
(* SpecAttendanceReports apply the statistics functions to stored rows.    *)
(* SpecEmployees runs the employee-record handlers, SpecAdminRoutes every  *)
(* admin mutation route under each kind of session, SpecCancelRace an      *)
(* employee's cancel beside the admin's status update, SpecEmployeeSide    *)
(* the operations of a signed-in employee, and SpecOverlap the three       *)
(* overlap tests on the same pair of date ranges.                          *)
(* Every call on tables attendance and leave_requests returns; an insert   *)
(* into table notifications may fail.                                      *)
(*                                                                         *)
(* Dates are day numbers.  A timestamp is a record [date, min] (minute of  *)
(* the day).  total_hours is kept in hundredths of an hour, the two        *)
(* decimals round(x, 2) keeps.  created_at is kept to the day of the       *)
(* server's clock when the code sends it, and is unset when the code       *)
(* leaves the column to the store.                                         *)
(***************************************************************************)
EXTENDS Integers, FiniteSets, Sequences, TLC

VARIABLES
    today,           \* the server's date: date.today() / datetime.now().date()
    attendance,      \* the rows of table `attendance'
    leave_requests,  \* the rows of table `leave_requests'
    resp,            \* the response of the last handler
    notified,        \* the notification rows the last handler appended
    inflight,        \* per worker: the request it is in the middle of, if any
    employees        \* the rows of table `employees' with role employee, status active

vars == <<today, attendance, leave_requests, resp, notified, inflight, employees>>

(***************************************************************************)
(* Bounds of the model.                                                    *)
(***************************************************************************)
MaxRows == 2        \* cap on the rows of table attendance
MaxLeaves == 2      \* cap on the rows of table leave_requests

Dates == {1, 2}                 \* the calendar window
Minutes == {540, 550}           \* 09:00 and 09:10
Employees == {r.id : r \in employees}   \* the ids of the rows of table employees
NoEmployee == "e9"              \* an id with no row in table employees
Null == << >>                   \* None / SQL NULL; a value v that is set is <<v>>
Some(v) == <<v>>
The(opt) == opt[1]

Timestamps == [date : Dates, min : Minutes]

(***************************************************************************)
(* Responses.                                                              *)
(***************************************************************************)
Ok(code, body) == [success |-> TRUE, code |-> code, body |-> body]
Err(code, body) == [success |-> FALSE, code |-> code, body |-> body]
\* the handlers of admin_attendance.py and employee_attendance.py answer
\* {success, message} with HTTP 200: the free text of the message is not kept
Message(success) == [success |-> success, code |-> 200, body |-> "message"]

NoNotification == << >>

\* The workers of the WSGI server that run handlers side by side, and the
\* state of a worker that is between requests.
Procs == {1, 2}
Idle == [op |-> "idle"]

(***************************************************************************)
(* The remote store: select / insert / update / delete on attendance.      *)
(***************************************************************************)
\* A select that drops .eq('date', d): every row of the employee.
AttendanceOfEmployee(e, d) == {r \in attendance : r.employee_id = e}

\* .select('*').eq('employee_id', e).eq('date', d)
AttendanceFor(e, d) == {r \in attendance : r.employee_id = e /\ r.date = d}

\* The store gives an inserted row a fresh id.  The code relies on nothing but
\* freshness; the id chosen is the first unused one of the row's key.
NewAttendanceId(e, d) ==
    LET used == {r.id : r \in attendance}
        k == CHOOSE n \in 1..(Cardinality(attendance) + 1) : <<e, d, n>> \notin used
    IN  <<e, d, k>>

\* data[0] of a select: some row of the result
First(rows) == CHOOSE r \in rows : TRUE

\* datetime subtraction, in minutes
MinutesBetween(t1, t2) == (t2.date - t1.date) * 1440 + (t2.min - t1.min)

\* Truncation to two decimals instead of rounding.
TruncatedHours(minutes) == (minutes * 100) \div 60

\* round(time_diff.total_seconds() / 3600, 2), in hundredths of an hour:
\* the integer nearest to minutes * 100 / 60 (whole minutes never tie)
TotalHours(minutes) == (minutes * 10 + 3) \div 6

(***************************************************************************)
(* app.py: POST /employee/clock                                            *)
(***************************************************************************)
\* A branch test that forgets clock_out_time.
ClockedIn(rec) == rec.clock_in_time # Null

\* the branch test of the existing record: open for a clock-out
ClockOutAllowed(rec) == rec.clock_in_time # Null /\ rec.clock_out_time = Null

ClockInRow(e, t) ==
    [id |-> NewAttendanceId(e, t.date), employee_id |-> e, date |-> t.date,
     status |-> "present", clock_in_time |-> Some(t), clock_out_time |-> Null,
     total_hours |-> Null, created_at |-> Null]

ClockOutRow(rec, t) ==
    [rec EXCEPT !.clock_out_time = Some(t),
                !.total_hours = Some(TotalHours(MinutesBetween(The(rec.clock_in_time), t))),
                !.status = "completed"]

employee_clock(e, t) ==
    LET found == AttendanceFor(e, t.date) IN
    /\ IF found = {}
         THEN /\ Cardinality(attendance) < MaxRows
              /\ attendance' = attendance \cup {ClockInRow(e, t)}
              /\ resp' = Ok(200, "clock_in")
              /\ notified' = <<[employee_id |-> e, title |-> "Clock In Successful"]>>
         ELSE LET rec == First(found) IN
              IF ClockOutAllowed(rec)
                THEN /\ attendance' = {IF r.id = rec.id THEN ClockOutRow(r, t) ELSE r
                                          : r \in attendance}
                     /\ resp' = Ok(200, "clock_out")
                     /\ notified' = <<[employee_id |-> e, title |-> "Clock Out Successful"]>>
                ELSE /\ attendance' = attendance
                     /\ resp' = Err(400, "Attendance already completed for today")
                     /\ notified' = NoNotification
    /\ UNCHANGED <<today, leave_requests, inflight, employees>>

(***************************************************************************)
(* employee_attendance.py: POST /employee/attendance/mark                  *)
(***************************************************************************)
SelfMarkRow(e) ==
    [id |-> NewAttendanceId(e, today), employee_id |-> e, date |-> today,
     status |-> "present", clock_in_time |-> Null, clock_out_time |-> Null,
     total_hours |-> Null, created_at |-> Some(today)]

employee_mark_attendance(e) ==
    /\ IF AttendanceFor(e, today) # {}
         THEN /\ attendance' = attendance
              /\ resp' = Message(FALSE)
         ELSE /\ Cardinality(attendance) < MaxRows
              /\ attendance' = attendance \cup {SelfMarkRow(e)}
              /\ resp' = Message(TRUE)
    /\ notified' = NoNotification
    /\ UNCHANGED <<today, leave_requests, inflight, employees>>

(***************************************************************************)
(* admin_attendance.py: mark, bulk-mark, delete                            *)
(***************************************************************************)
MarkStatuses == {"present", "absent", "late"}

\* An insert that stores status present whatever status was sent.
AdminMarkRowPresent(table, e, d, status) ==
    LET used == {r.id : r \in table}
        k == CHOOSE n \in 1..(Cardinality(table) + 1) : <<e, d, n>> \notin used
    IN  [id |-> <<e, d, k>>, employee_id |-> e, date |-> d, status |-> "present",
         clock_in_time |-> Null, clock_out_time |-> Null, total_hours |-> Null,
         created_at |-> Null]

AdminMarkRow(table, e, d, status) ==
    LET used == {r.id : r \in table}
        k == CHOOSE n \in 1..(Cardinality(table) + 1) : <<e, d, n>> \notin used
    IN  [id |-> <<e, d, k>>, employee_id |-> e, date |-> d, status |-> status,
         clock_in_time |-> Null, clock_out_time |-> Null, total_hours |-> Null,
         created_at |-> Null]

\* A mark that inserts without looking for an existing row.
InsertOnly(table, e, d, status) == table \cup {AdminMarkRow(table, e, d, status)}

\* An upsert whose update leaves created_at as it was.
UpsertStatusOnly(table, e, d, status) ==
    IF \E r \in table : r.employee_id = e /\ r.date = d
      THEN {IF r.employee_id = e /\ r.date = d THEN [r EXCEPT !.status = status] ELSE r
              : r \in table}
      ELSE table \cup {AdminMarkRow(table, e, d, status)}

\* The upsert of mark_attendance and of one round of bulk_mark_attendance:
\* update every row of (e, d) when there is one, insert otherwise.
Upsert(table, e, d, status) ==
    IF \E r \in table : r.employee_id = e /\ r.date = d
      THEN {IF r.employee_id = e /\ r.date = d
              THEN [r EXCEPT !.status = status, !.created_at = Some(today)]
              ELSE r : r \in table}
      ELSE table \cup {AdminMarkRow(table, e, d, status)}

admin_mark_attendance(e, status, d) ==
    /\ IF status \notin MarkStatuses
         THEN /\ attendance' = attendance
              /\ resp' = Message(FALSE)
         ELSE IF d > today
         THEN /\ attendance' = attendance
              /\ resp' = Message(FALSE)
         ELSE IF e \notin Employees
         THEN /\ attendance' = attendance
              /\ resp' = Message(FALSE)
         ELSE /\ attendance' = Upsert(attendance, e, d, status)
              /\ Cardinality(attendance') <= MaxRows
              /\ resp' = Message(TRUE)
    /\ notified' = NoNotification
    /\ UNCHANGED <<today, leave_requests, inflight, employees>>

\* the loop of bulk_mark_attendance over employee_ids
RECURSIVE BulkLoop(_, _, _, _)
BulkLoop(table, ids, status, d) ==
    IF ids = << >> THEN table
    ELSE IF Head(ids) \notin Employees
      THEN BulkLoop(table, Tail(ids), status, d)
      ELSE BulkLoop(Upsert(table, Head(ids), d, status), Tail(ids), status, d)

bulk_mark_attendance(ids, status, d) ==
    /\ IF status \notin MarkStatuses
         THEN /\ attendance' = attendance
              /\ resp' = Message(FALSE)
         ELSE IF d > today
         THEN /\ attendance' = attendance
              /\ resp' = Message(FALSE)
         ELSE /\ attendance' = BulkLoop(attendance, ids, status, d)
              /\ Cardinality(attendance') <= MaxRows
              /\ resp' = Message(TRUE)
    /\ notified' = NoNotification
    /\ UNCHANGED <<today, leave_requests, inflight, employees>>

delete_attendance(id) ==
    /\ IF \E r \in attendance : r.id = id
         THEN /\ attendance' = {r \in attendance : r.id # id}
              /\ resp' = Message(TRUE)
         ELSE /\ attendance' = attendance
              /\ resp' = Message(FALSE)
    /\ notified' = NoNotification
    /\ UNCHANGED <<today, leave_requests, inflight, employees>>

(***************************************************************************)
(* Leave requests.  Dates travel as 'YYYY-MM-DD' strings and are stored as *)
(* sent; datetime.strptime(s, '%Y-%m-%d') turns them into dates.           *)
(***************************************************************************)
DateStrings == {"2025-01-01", "2025-01-02"}
Malformed == "01/02/2025"       \* a string strptime raises ValueError on
Missing == ""                   \* a field that is absent or empty

\* datetime.strptime(s, '%Y-%m-%d').date(), for the strings that parse
ParseDate(s) == CASE s = "2025-01-01" -> 1
                  [] s = "2025-01-02" -> 2
Parses(s) == s \in DateStrings

\* LEAVE_TYPES of employee_leave.py
ValidLeaveTypes == {"vacation", "sick", "personal", "emergency", "maternity",
                    "paternity", "bereavement", "other"}

\* The store gives an inserted row a fresh id: the first unused one of its key.
NewLeaveId(e, s, en) ==
    LET used == {r.id : r \in leave_requests}
        k == CHOOSE n \in 1..(Cardinality(leave_requests) + 1) : <<e, s, en, n>> \notin used
    IN  <<e, s, en, k>>

LeaveRow(e, data) ==
    [id |-> NewLeaveId(e, data.start_date, data.end_date), employee_id |-> e,
     leave_type |-> data.leave_type, start_date |-> data.start_date,
     end_date |-> data.end_date, reason |-> data.reason, status |-> "pending"]

\* The overlap tests, on dates: [new_start, new_end] is the range asked for,
\* [existing_start, existing_end] the range of a stored request.
\* employee_leave.py: not (end_date_obj < existing_start or start_date_obj > existing_end)
SubmitOverlapTest(new_start, new_end, existing_start, existing_end) ==
    ~(new_end < existing_start \/ new_start > existing_end)

\* admin_leave_requests.py: new_start <= existing_end and new_end >= existing_start
ValidateOverlapTest(new_start, new_end, existing_start, existing_end) ==
    new_start <= existing_end /\ new_end >= existing_start

\* A test of two clauses: the stored range holds the first day asked for, or
\* the last.
TwoClauseOverlapTest(new_start, new_end, existing_start, existing_end) ==
    \/ existing_start <= new_start /\ existing_end >= new_start
    \/ existing_start <= new_end /\ existing_end >= new_end

\* employee_dashboard.py: the or_ of three and_ clauses of the leave form
DashboardOverlapTest(new_start, new_end, existing_start, existing_end) ==
    \/ existing_start <= new_start /\ existing_end >= new_start
    \/ existing_start <= new_end /\ existing_end >= new_end
    \/ existing_start >= new_start /\ existing_end <= new_end

OverlapsSubmit(s, en, row) ==
    SubmitOverlapTest(ParseDate(s), ParseDate(en),
                      ParseDate(row.start_date), ParseDate(row.end_date))

OverlapsValidate(s, en, row) ==
    ValidateOverlapTest(ParseDate(s), ParseDate(en),
                        ParseDate(row.start_date), ParseDate(row.end_date))

(***************************************************************************)
(* employee_leave.py: POST /employee/leave/submit                          *)
(***************************************************************************)
\* the rows the overlap check of submit_leave_request reads
SubmitOverlapRows(e) ==
    {r \in leave_requests : r.employee_id = e /\ r.status # "rejected"}

\* the error of the first check that fails, or "ok"
SubmitCheck(e, data) ==
    IF data.leave_type = Missing THEN "Leave Type is required"
    ELSE IF data.start_date = Missing THEN "Start Date is required"
    ELSE IF data.end_date = Missing THEN "End Date is required"
    ELSE IF data.reason = Missing THEN "Reason is required"
    ELSE IF data.leave_type \notin ValidLeaveTypes THEN "Invalid leave type"
    ELSE IF ~Parses(data.start_date) \/ ~Parses(data.end_date) THEN "Invalid date format"
    ELSE IF ParseDate(data.start_date) < today THEN "Start date cannot be in the past"
    ELSE IF ParseDate(data.end_date) < ParseDate(data.start_date)
         THEN "End date must be after start date"
    ELSE IF \E r \in SubmitOverlapRows(e) : OverlapsSubmit(data.start_date, data.end_date, r)
         THEN "Leave request overlaps with existing request"
    ELSE "ok"

\* e: session['user_id']; data: the JSON body
submit_leave_request(e, data) ==
    LET check == SubmitCheck(e, data) IN
    /\ IF check # "ok"
         THEN /\ leave_requests' = leave_requests
              /\ resp' = Err(400, check)
         ELSE /\ Cardinality(leave_requests) < MaxLeaves
              /\ leave_requests' = leave_requests \cup {LeaveRow(e, data)}
              /\ resp' = Ok(200, "Leave request submitted successfully!")
    /\ notified' = NoNotification
    /\ UNCHANGED <<today, attendance, inflight, employees>>

(***************************************************************************)
(* employee_leave.py: POST /employee/leave/<leave_id>/cancel               *)
(***************************************************************************)
\* A status test that lets every request through.
CancellableAlways(row) == row.status \in {"pending", "approved", "rejected"}

\* the status test of cancel_leave_request
Cancellable(row) == row.status = "pending"

\* A lookup by id alone.
LookupById(e, leave_id) == {r \in leave_requests : r.id = leave_id}

\* the select of cancel_leave_request: .eq('id', leave_id).eq('employee_id', employee_id)
CancelLookup(e, leave_id) ==
    {r \in leave_requests : r.id = leave_id /\ r.employee_id = e}

cancel_leave_request(e, leave_id) ==
    LET found == CancelLookup(e, leave_id) IN
    /\ IF found = {}
         THEN /\ leave_requests' = leave_requests
              /\ resp' = Err(404, "Leave request not found")
         ELSE IF ~Cancellable(First(found))
         THEN /\ leave_requests' = leave_requests
              /\ resp' = Err(400, "Can only cancel pending requests")
         ELSE /\ leave_requests' = {r \in leave_requests : r.id # leave_id}
              /\ resp' = Ok(200, "Leave request cancelled successfully")
    /\ notified' = NoNotification
    /\ UNCHANGED <<today, attendance, inflight, employees>>

(***************************************************************************)
(* admin_leave_requests.py: create, update-status, delete                  *)
(***************************************************************************)
\* validate_leave_request: the rows its overlap check reads
ValidateRows(e) ==
    {r \in leave_requests : r.employee_id = e /\ r.status = "approved"}

validate_leave_request(e, s, en) ==
    IF \E r \in ValidateRows(e) : OverlapsValidate(s, en, r)
      THEN "Leave request overlaps with existing approved leave"
      ELSE "Valid"

\* the error of the first check of create_leave_request that fails, or "ok"
CreateCheck(data) ==
    IF data.employee_id = Missing THEN "employee_id is required"
    ELSE IF data.leave_type = Missing THEN "leave_type is required"
    ELSE IF data.start_date = Missing THEN "start_date is required"
    ELSE IF data.end_date = Missing THEN "end_date is required"
    ELSE IF ~Parses(data.start_date) \/ ~Parses(data.end_date) THEN "Invalid date format"
    ELSE IF ParseDate(data.start_date) < today THEN "Start date cannot be in the past"
    ELSE IF ParseDate(data.end_date) < ParseDate(data.start_date)
         THEN "End date must be after start date"
    ELSE IF validate_leave_request(data.employee_id, data.start_date, data.end_date) # "Valid"
         THEN validate_leave_request(data.employee_id, data.start_date, data.end_date)
    ELSE IF data.employee_id \notin Employees THEN "Employee not found"
    ELSE "ok"

\* What delivery meets: whether EMAIL_HOST_USER and EMAIL_HOST_PASSWORD are set,
\* whether the SMTP exchange ends well, whether table notifications takes an insert.
MailOutcomes == [credentials : BOOLEAN, smtp : {"sent", "failed"}, table : BOOLEAN]

\* credentials set, the mail accepted, the log row inserted
Delivered == [credentials |-> TRUE, smtp |-> "sent", table |-> TRUE]

LeaveNotification(e, title, status, email_sent) ==
    [employee_id |-> e, title |-> title, status |-> status, email_sent |-> email_sent]

\* a log that records every attempt as sent
LogAsSent(e, title, status, email_sent, mail) ==
    IF mail.table THEN <<LeaveNotification(e, title, status, TRUE)>> ELSE NoNotification

\* log_notification: one insert, its failure printed and dropped
log_notification(e, title, status, email_sent, mail) ==
    IF mail.table THEN <<LeaveNotification(e, title, status, email_sent)>> ELSE NoNotification

\* _queue_email_notification: one insert with status pending, its failure dropped
QueueEmailNotification(e, title, mail) ==
    IF mail.table THEN <<LeaveNotification(e, title, "pending", FALSE)>> ELSE NoNotification

\* a send that lets an SMTP failure reach its caller
SendUncaught(e, title, mail) ==
    IF ~mail.credentials
      THEN [rows |-> QueueEmailNotification(e, title, mail), raised |-> FALSE]
      ELSE IF mail.smtp = "sent"
      THEN [rows |-> log_notification(e, title, "sent", TRUE, mail), raised |-> FALSE]
      ELSE [rows |-> NoNotification, raised |-> TRUE]

\* send_notification_email: the rows it appends, and whether it raises
send_notification_email(e, title, mail) ==
    IF ~mail.credentials
      THEN [rows |-> QueueEmailNotification(e, title, mail), raised |-> FALSE]
      ELSE IF mail.smtp = "sent"
      THEN [rows |-> log_notification(e, title, "sent", TRUE, mail), raised |-> FALSE]
      ELSE [rows |-> log_notification(e, title, "failed", FALSE, mail), raised |-> FALSE]

\* the end of both handlers: the response after the write, or the 500 of
\* "except Exception" when the notification raises
AfterWrite(sent, message) ==
    /\ resp' = IF sent.raised THEN Err(500, "Internal server error") ELSE Ok(200, message)
    /\ notified' = sent.rows

create_leave_request(data, mail) ==
    LET check == CreateCheck(data) IN
    /\ IF check # "ok"
         THEN /\ leave_requests' = leave_requests
              /\ resp' = Err(IF check = "Employee not found" THEN 404 ELSE 400, check)
              /\ notified' = NoNotification
         ELSE /\ Cardinality(leave_requests) < MaxLeaves
              /\ leave_requests' = leave_requests \cup {LeaveRow(data.employee_id, data)}
              /\ AfterWrite(send_notification_email(data.employee_id, "pending", mail),
                            "Leave request created successfully")
    /\ UNCHANGED <<today, attendance, inflight, employees>>

LeaveStatuses == {"pending", "approved", "rejected"}

update_leave_status(request_id, new_status, mail) ==
    LET found == {r \in leave_requests : r.id = request_id} IN
    /\ IF request_id = Missing \/ new_status = Missing
         THEN /\ leave_requests' = leave_requests
              /\ resp' = Err(400, "Request ID and status are required")
              /\ notified' = NoNotification
         ELSE IF new_status \notin LeaveStatuses
         THEN /\ leave_requests' = leave_requests
              /\ resp' = Err(400, "Invalid status")
              /\ notified' = NoNotification
         ELSE IF found = {}
         THEN /\ leave_requests' = leave_requests
              /\ resp' = Err(404, "Leave request not found")
              /\ notified' = NoNotification
         ELSE /\ leave_requests' = {IF r.id = request_id THEN [r EXCEPT !.status = new_status]
                                       ELSE r : r \in leave_requests}
              /\ AfterWrite(send_notification_email(First(found).employee_id, new_status, mail),
                            "Leave request status updated")
    /\ UNCHANGED <<today, attendance, inflight, employees>>

delete_leave_request(request_id) ==
    /\ IF request_id = Missing
         THEN /\ leave_requests' = leave_requests
              /\ resp' = Err(400, "Request ID is required")
         ELSE IF \A r \in leave_requests : r.id # request_id
         THEN /\ leave_requests' = leave_requests
              /\ resp' = Err(404, "Leave request not found")
         ELSE /\ leave_requests' = {r \in leave_requests : r.id # request_id}
              /\ resp' = Ok(200, "Leave request deleted successfully")
    /\ notified' = NoNotification
    /\ UNCHANGED <<today, attendance, inflight, employees>>

(***************************************************************************)
(* The server's calendar.                                                  *)
(***************************************************************************)
Tick ==
    /\ today + 1 \in Dates
    /\ today' = today + 1
    /\ UNCHANGED <<attendance, leave_requests, resp, notified, inflight, employees>>

\* a row of table employees: email is stored trimmed and lower-cased
EmployeeRow(id, name, email) == [id |-> id, name |-> name, email |-> email, image |-> ""]
InitialEmployees == {EmployeeRow("e1", "Ana", "ana@x.com"), EmployeeRow("e2", "Ben", "ben@x.com")}

Init ==
    /\ today = 1
    /\ attendance = {}
    /\ leave_requests = {}
    /\ resp = Ok(200, "start")
    /\ notified = NoNotification
    /\ inflight = [p \in Procs |-> Idle]
    /\ employees = InitialEmployees

\* the requests the admin sends: marks as present and as absent (the code
\* treats late as it treats absent), and one request for each rejection
AdminMarkInputs ==
    (Employees \X {"present", "absent"} \X Dates)
        \cup {<<NoEmployee, "present", 1>>, <<"e1", "completed", 1>>}
BulkMarkInputs ==
    ({<<"e1", "e2">>, <<"e2", "e2">>} \X {"absent"} \X Dates)
        \cup {<<<<NoEmployee, "e1">>, "absent", 1>>, <<<<"e1">>, "completed", 1>>}
NoAttendanceId == <<NoEmployee, 1, 1>>   \* the id of no row

\* the clock events sent: the first employee's at every timestamp, the second's
\* at one minute of each day
ClockInputs == {in \in Employees \X Timestamps : in[1] = "e1" \/ in[2].min = 540}

NextAttendance ==
    \/ Tick
    \/ \E in \in ClockInputs : employee_clock(in[1], in[2])
    \/ \E e \in Employees : employee_mark_attendance(e)
    \/ \E in \in AdminMarkInputs : admin_mark_attendance(in[1], in[2], in[3])
    \/ \E in \in BulkMarkInputs : bulk_mark_attendance(in[1], in[2], in[3])
    \/ \E id \in {r.id : r \in attendance} \cup {NoAttendanceId} : delete_attendance(id)

SpecAttendance == Init /\ [][NextAttendance]_vars

(***************************************************************************)
(* The attendance handlers run side by side: a step is one remote-store    *)
(* call, and what a handler selected stays with it until its write.        *)
(***************************************************************************)
Begin(p, call) == inflight' = [inflight EXCEPT ![p] = call]
Finish(p) == inflight' = [inflight EXCEPT ![p] = Idle]

\* A write that looks the rows up again in the same call as it writes.
RowsNow(p) == AttendanceFor(inflight[p].e, inflight[p].d)

\* attendance_response.data / existing_response.data: the rows the handler's
\* select returned, which is what its write goes by
RowsSeen(p) == inflight[p].seen

\* app.py employee_clock: the select
clock_select(p, e, t) ==
    /\ inflight[p] = Idle
    /\ Begin(p, [op |-> "clock", e |-> e, d |-> t.date, t |-> t,
                 seen |-> AttendanceFor(e, t.date)])
    /\ UNCHANGED <<today, attendance, leave_requests, resp, notified, employees>>

\* the columns update_data sets, on the row whose id the update names
ClockOutUpdate(r, rec, t) ==
    [r EXCEPT !.clock_out_time = ClockOutRow(rec, t).clock_out_time,
              !.total_hours = ClockOutRow(rec, t).total_hours,
              !.status = ClockOutRow(rec, t).status]

\* app.py employee_clock: the insert or the update, and the response
clock_write(p) ==
    /\ inflight[p].op = "clock"
    /\ LET e == inflight[p].e
           t == inflight[p].t
           found == RowsSeen(p)
       IN  IF found = {}
             THEN /\ Cardinality(attendance) < MaxRows
                  /\ attendance' = attendance \cup {ClockInRow(e, t)}
                  /\ resp' = Ok(200, "clock_in")
                  /\ notified' = <<[employee_id |-> e, title |-> "Clock In Successful"]>>
             ELSE LET rec == First(found) IN
                  IF ClockOutAllowed(rec)
                    THEN /\ attendance' = {IF r.id = rec.id THEN ClockOutUpdate(r, rec, t)
                                              ELSE r : r \in attendance}
                         /\ resp' = Ok(200, "clock_out")
                         /\ notified' =
                               <<[employee_id |-> e, title |-> "Clock Out Successful"]>>
                    ELSE /\ attendance' = attendance
                         /\ resp' = Err(400, "Attendance already completed for today")
                         /\ notified' = NoNotification
    /\ Finish(p)
    /\ UNCHANGED <<today, leave_requests, employees>>

\* employee_attendance.py mark_attendance: the select
selfmark_select(p, e) ==
    /\ inflight[p] = Idle
    /\ Begin(p, [op |-> "selfmark", e |-> e, d |-> today,
                 seen |-> AttendanceFor(e, today)])
    /\ UNCHANGED <<today, attendance, leave_requests, resp, notified, employees>>

\* the row mark_attendance inserts for the date it read before its select
SelfMarkRowAt(e, d) == [SelfMarkRow(e) EXCEPT !.id = NewAttendanceId(e, d), !.date = d]

\* employee_attendance.py mark_attendance: the insert, and the response
selfmark_write(p) ==
    /\ inflight[p].op = "selfmark"
    /\ IF RowsSeen(p) # {}
         THEN /\ attendance' = attendance
              /\ resp' = Message(FALSE)
         ELSE /\ Cardinality(attendance) < MaxRows
              /\ attendance' = attendance \cup {SelfMarkRowAt(inflight[p].e, inflight[p].d)}
              /\ resp' = Message(TRUE)
    /\ notified' = NoNotification
    /\ Finish(p)
    /\ UNCHANGED <<today, leave_requests, employees>>

\* admin_attendance.py mark_attendance: the checks and the select
adminmark_select(p, e, status, d) ==
    /\ inflight[p] = Idle
    /\ IF status \notin MarkStatuses \/ d > today \/ e \notin Employees
         THEN /\ resp' = Message(FALSE)
              /\ notified' = NoNotification
              /\ UNCHANGED inflight
         ELSE /\ Begin(p, [op |-> "adminmark", e |-> e, d |-> d, status |-> status,
                           seen |-> AttendanceFor(e, d)])
              /\ UNCHANGED <<resp, notified>>
    /\ UNCHANGED <<today, attendance, leave_requests, employees>>

\* admin_attendance.py mark_attendance: the update or the insert
adminmark_write(p) ==
    /\ inflight[p].op = "adminmark"
    /\ LET e == inflight[p].e
           d == inflight[p].d
       IN  attendance' =
             IF RowsSeen(p) # {}
               THEN {IF r.employee_id = e /\ r.date = d
                       THEN [r EXCEPT !.status = inflight[p].status,
                                      !.created_at = Some(today)]
                       ELSE r : r \in attendance}
               ELSE attendance \cup {AdminMarkRow(attendance, e, d, inflight[p].status)}
    /\ Cardinality(attendance') <= MaxRows
    /\ resp' = Message(TRUE)
    /\ notified' = NoNotification
    /\ Finish(p)
    /\ UNCHANGED <<today, leave_requests, employees>>

\* The requests in flight together: clock events, self-marks and admin marks
\* of one employee for one date, and an admin mark of another employee.
RaceClockInputs == {<<"e1", t>> : t \in {ts \in Timestamps : ts.date = 1}}
RaceMarkInputs == {<<"e1", "late", 1>>, <<"e2", "late", 1>>, <<"e1", "late", 2>>}

NextAttendanceRace ==
    \/ \E p \in Procs, in \in RaceClockInputs : clock_select(p, in[1], in[2])
    \/ \E p \in Procs : clock_write(p)
    \/ \E p \in Procs : selfmark_select(p, "e1")
    \/ \E p \in Procs : selfmark_write(p)
    \/ \E p \in Procs, in \in RaceMarkInputs : adminmark_select(p, in[1], in[2], in[3])
    \/ \E p \in Procs : adminmark_write(p)

SpecAttendanceRace == Init /\ [][NextAttendanceRace]_vars

\* The bodies sent to the leave handlers.  The first employee sends every
\* well-formed body and ill-formed ones that fail one check or several; the
\* second, whose rows the checks on the first must not read, sends one body.
Body(type, s, en, reason) ==
    [leave_type |-> type, start_date |-> s, end_date |-> en, reason |-> reason]
WellFormedBodies == {Body("vacation", s, en, "family") : s, en \in DateStrings}
IllFormedBodies ==
    { Body(Missing, "2025-01-01", "2025-01-01", "family"),
      Body("vacation", Missing, "2025-01-01", "family"),
      Body("vacation", "2025-01-02", Missing, Missing),
      Body("vacation", "2025-01-02", Malformed, Missing),
      Body("weekend", Malformed, "2025-01-02", "family"),
      Body("weekend", "2025-01-02", "2025-01-01", Missing),
      Body("vacation", "2025-01-02", Malformed, "family") }
LeaveBodies(e) ==
    IF e = "e1" THEN WellFormedBodies \cup IllFormedBodies
    ELSE {Body("vacation", "2025-01-01", "2025-01-02", "family")}
SubmitInputs ==
    {in \in Employees \X (WellFormedBodies \cup IllFormedBodies) : in[2] \in LeaveBodies(in[1])}
WithEmployee(e, body) ==
    [employee_id |-> e, leave_type |-> body.leave_type, start_date |-> body.start_date,
     end_date |-> body.end_date, reason |-> body.reason]
CreateBodies ==
    {WithEmployee(in[1], in[2]) : in \in SubmitInputs}
        \cup {WithEmployee(Missing, Body("vacation", "2025-01-02", "2025-01-02", "family")),
              WithEmployee(NoEmployee, Body("vacation", "2025-01-02", "2025-01-02", "family"))}
LeaveIds == {r.id : r \in leave_requests}
NoLeaveId == <<NoEmployee, Missing, Missing, 1>>   \* the id of no row
StatusInputs == LeaveStatuses \cup {"cancelled"}

NextLeave ==
    \/ Tick
    \/ \E in \in SubmitInputs : submit_leave_request(in[1], in[2])
    \/ \E e \in Employees, id \in LeaveIds \cup {NoLeaveId} : cancel_leave_request(e, id)
    \/ \E data \in CreateBodies : create_leave_request(data, Delivered)
    \/ \E id \in LeaveIds \cup {NoLeaveId}, st \in StatusInputs :
          update_leave_status(id, st, Delivered)
    \/ \E id \in LeaveIds \cup {NoLeaveId} : delete_leave_request(id)

SpecLeave == Init /\ [][NextLeave]_vars

(***************************************************************************)
(* The admin's leave handlers under every outcome of delivery.             *)
(***************************************************************************)
NotifyBodies ==
    {WithEmployee("e1", Body("vacation", "2025-01-01", "2025-01-02", "family")),
     WithEmployee("e2", Body("vacation", "2025-01-02", "2025-01-02", "family")),
     WithEmployee(NoEmployee, Body("vacation", "2025-01-02", "2025-01-02", "family"))}
NotifyStatuses == {"approved", "rejected", "cancelled"}

NextNotifications ==
    \/ \E data \in NotifyBodies, mail \in MailOutcomes : create_leave_request(data, mail)
    \/ \E id \in LeaveIds \cup {NoLeaveId}, st \in NotifyStatuses, mail \in MailOutcomes :
          update_leave_status(id, st, mail)
    \/ \E id \in LeaveIds \cup {NoLeaveId} : delete_leave_request(id)

SpecNotifications == Init /\ [][NextNotifications]_vars

(***************************************************************************)
(* Leave submissions side by side: a step is one remote-store call.        *)
(***************************************************************************)
\* An overlap test that selects again in the same call as the insert.
OverlapRowsNow(p) == SubmitOverlapRows(inflight[p].e)

\* overlap_response.data: the rows the overlap loop of submit_leave_request reads
OverlapRowsSeen(p) == inflight[p].seen

\* employee_leave.py submit_leave_request: the checks on the body, and the select
submit_select(p, e, data) ==
    /\ inflight[p] = Idle
    /\ LET check == SubmitCheck(e, data) IN
       IF check \notin {"ok", "Leave request overlaps with existing request"}
         THEN /\ resp' = Err(400, check)
              /\ notified' = NoNotification
              /\ UNCHANGED inflight
         ELSE /\ Begin(p, [op |-> "submit", e |-> e, data |-> data,
                           seen |-> SubmitOverlapRows(e)])
              /\ UNCHANGED <<resp, notified>>
    /\ UNCHANGED <<today, attendance, leave_requests, employees>>

\* employee_leave.py submit_leave_request: the overlap loop, the insert, the response
submit_write(p) ==
    /\ inflight[p].op = "submit"
    /\ LET e == inflight[p].e
           data == inflight[p].data
       IN  IF \E r \in OverlapRowsSeen(p) : OverlapsSubmit(data.start_date, data.end_date, r)
             THEN /\ leave_requests' = leave_requests
                  /\ resp' = Err(400, "Leave request overlaps with existing request")
             ELSE /\ Cardinality(leave_requests) < MaxLeaves
                  /\ leave_requests' = leave_requests \cup {LeaveRow(e, data)}
                  /\ resp' = Ok(200, "Leave request submitted successfully!")
    /\ notified' = NoNotification
    /\ Finish(p)
    /\ UNCHANGED <<today, attendance, employees>>

\* the submissions in flight together: the well-formed ones
RaceSubmitInputs == {in \in SubmitInputs : in[2] \in WellFormedBodies}

NextLeaveRace ==
    \/ Tick
    \/ \E p \in Procs, in \in RaceSubmitInputs : submit_select(p, in[1], in[2])
    \/ \E p \in Procs : submit_write(p)

SpecLeaveRace == Init /\ [][NextLeaveRace]_vars

(***************************************************************************)
(* An employee's cancel beside the admin's status update: a step is one    *)
(* remote-store call.                                                      *)
(***************************************************************************)
\* employee_leave.py cancel_leave_request: the select and the status test
cancel_select(p, e, leave_id) ==
    /\ inflight[p] = Idle
    /\ LET found == {r \in leave_requests : r.id = leave_id /\ r.employee_id = e} IN
       IF found = {}
         THEN /\ resp' = Err(404, "Leave request not found")
              /\ notified' = NoNotification
              /\ UNCHANGED inflight
         ELSE IF ~Cancellable(First(found))
         THEN /\ resp' = Err(400, "Can only cancel pending requests")
              /\ notified' = NoNotification
              /\ UNCHANGED inflight
         ELSE /\ Begin(p, [op |-> "cancel", e |-> e, id |-> leave_id, seen |-> found])
              /\ UNCHANGED <<resp, notified>>
    /\ UNCHANGED <<today, attendance, leave_requests, employees>>

\* employee_leave.py cancel_leave_request: delete().eq('id', leave_id)
cancel_delete(p) ==
    /\ inflight[p].op = "cancel"
    /\ leave_requests' = {r \in leave_requests : r.id # inflight[p].id}
    /\ resp' = IF \E r \in leave_requests : r.id = inflight[p].id
                 THEN Ok(200, "Leave request cancelled successfully")
                 ELSE Err(500, "Failed to cancel leave request")
    /\ notified' = NoNotification
    /\ Finish(p)
    /\ UNCHANGED <<today, attendance, employees>>

\* admin_leave_requests.py update_leave_status: the checks and the select
update_select(p, request_id, new_status) ==
    /\ inflight[p] = Idle
    /\ LET found == {r \in leave_requests : r.id = request_id} IN
       IF new_status \notin LeaveStatuses
         THEN /\ resp' = Err(400, "Invalid status")
              /\ notified' = NoNotification
              /\ UNCHANGED inflight
         ELSE IF found = {}
         THEN /\ resp' = Err(404, "Leave request not found")
              /\ notified' = NoNotification
              /\ UNCHANGED inflight
         ELSE /\ Begin(p, [op |-> "update", id |-> request_id, status |-> new_status,
                           seen |-> found])
              /\ UNCHANGED <<resp, notified>>
    /\ UNCHANGED <<today, attendance, leave_requests, employees>>

\* admin_leave_requests.py update_leave_status: the update and the notification
update_write(p) ==
    /\ inflight[p].op = "update"
    /\ leave_requests' = {IF r.id = inflight[p].id THEN [r EXCEPT !.status = inflight[p].status]
                            ELSE r : r \in leave_requests}
    /\ IF \E r \in leave_requests : r.id = inflight[p].id
         THEN AfterWrite(send_notification_email(First(inflight[p].seen).employee_id,
                                                 inflight[p].status, Delivered),
                         "Leave request status updated")
         ELSE /\ resp' = Err(500, "Failed to update status")
              /\ notified' = NoNotification
    /\ Finish(p)
    /\ UNCHANGED <<today, attendance, employees>>

\* the employee's one request, and the admin's decisions on it
RaceLeaveBody == Body("vacation", "2025-01-01", "2025-01-02", "family")

NextCancelRace ==
    \/ submit_leave_request("e1", RaceLeaveBody)
    \/ \E p \in Procs, id \in LeaveIds \cup {NoLeaveId} : cancel_select(p, "e1", id)
    \/ \E p \in Procs : cancel_delete(p)
    \/ \E p \in Procs, id \in LeaveIds \cup {NoLeaveId}, st \in StatusInputs :
          update_select(p, id, st)
    \/ \E p \in Procs : update_write(p)

SpecCancelRace == Init /\ [][NextCancelRace]_vars

(***************************************************************************)
(* The three overlap tests, put to the same pair of ranges.  The dates are *)
(* days of one week; a range is asked for against the range of a stored    *)
(* request, and each test gives its answer.                                *)
(***************************************************************************)
OverlapDays == 1..4

overlap_tests(new_start, new_end, existing_start, existing_end) ==
    /\ resp' = [new_range |-> <<new_start, new_end>>,
                existing_range |-> <<existing_start, existing_end>>,
                submit |-> SubmitOverlapTest(new_start, new_end,
                                             existing_start, existing_end),
                admin_create |-> ValidateOverlapTest(new_start, new_end,
                                                     existing_start, existing_end),
                dashboard |-> DashboardOverlapTest(new_start, new_end,
                                                   existing_start, existing_end)]
    /\ notified' = NoNotification
    /\ UNCHANGED <<today, attendance, leave_requests, inflight, employees>>

NextOverlap ==
    \E new_start, new_end, existing_start, existing_end \in OverlapDays :
        overlap_tests(new_start, new_end, existing_start, existing_end)

SpecOverlap == Init /\ [][NextOverlap]_vars

(***************************************************************************)
(* The employee side: the operations a signed-in employee reaches, each    *)
(* with session['user_id'] as its employee, and the admin's decision on a  *)
(* request, which gives the requests every status.                         *)
(***************************************************************************)
OwnBodies == {Body("vacation", "2025-01-02", "2025-01-02", "family")}
\* clock events at one minute of each day
OwnClockTimes == {t \in Timestamps : t.min = 540}

NextEmployeeSide ==
    \/ \E e \in Employees, t \in OwnClockTimes : employee_clock(e, t)
    \/ \E e \in Employees : employee_mark_attendance(e)
    \/ \E e \in Employees, data \in OwnBodies : submit_leave_request(e, data)
    \/ \E e \in Employees, id \in LeaveIds : cancel_leave_request(e, id)
    \/ \E id \in LeaveIds, st \in {"approved", "rejected"} :
          update_leave_status(id, st, Delivered)

SpecEmployeeSide == Init /\ [][NextEmployeeSide]_vars

(***************************************************************************)
(* The leave balance an employee is shown.  The requests are rows the      *)
(* creation and status handlers have stored around a turn of the year; the *)
(* store stamps created_at with the time of the insert.  Dates are counted *)
(* in days from 2025-01-01 = 1.                                            *)
(***************************************************************************)
IsoDates == {"2025-12-31", "2026-01-01", "2026-01-15"}

\* date.weekday(): 0 is Monday; 2025-01-01, day 1, is a Wednesday
Weekday(d) == (d + 1) % 7
\* today.replace(day=1), for January, February and December 2025 and January 2026
MonthStart(d) ==
    IF d <= 31 THEN 1 ELSE IF d <= 59 THEN 32 ELSE IF d <= 365 THEN 335 ELSE 366
\* calendar.monthrange(today.year, today.month)[1], for the same months
LastDay(d) == IF MonthStart(d) = 32 THEN 28 ELSE 31
MonthEnd(d) == MonthStart(d) + LastDay(d) - 1

\* every date of the range, weekends included
CalendarDays(start, end) == Cardinality(start..end)

\* the loop  while current <= end: if current.weekday() < 5: working_days += 1
WorkingDays(start, end) == Cardinality({d \in start..end : Weekday(d) < 5})

\* round(n / d * 100, k) in units of 10^-k percent, scale = 10^k (halves upwards)
Percent(n, d, scale) == (2 * n * 100 * scale + d) \div (2 * d)

\* the rows of an employee dated in [start, end] whose status is one of statuses
RowsWithStatus(e, start, end, statuses) ==
    {r \in attendance :
        r.employee_id = e /\ r.date >= start /\ r.date <= end /\ r.status \in statuses}

\* datetime.fromisoformat(s).date() / datetime.strptime(s, '%Y-%m-%d').date()
FromIso(s) ==
    CASE s \in DateStrings -> ParseDate(s)
      [] s = "2025-12-31" -> 365
      [] s = "2026-01-01" -> 366
      [] s = "2026-01-15" -> 380

\* f'{current_year}-01-01' and f'{current_year}-12-31', as days
YearStart(year) == IF year = 2025 THEN 1 ELSE 366
YearEnd(year) == IF year = 2025 THEN 365 ELSE 730
\* datetime.now().year
CurrentYear == IF today <= 365 THEN 2025 ELSE 2026

CreationTimes == {"2025-12-30T09:00:00", "2026-01-01T09:00:00"}
\* leave['created_at'].startswith(str(current_year))
StartsWithYear(created_at, year) ==
    IF created_at = "2025-12-30T09:00:00" THEN year = 2025 ELSE year = 2026

StoredLeave(k, e, s, en, status, created_at) ==
    [id |-> <<e, s, en, k>>, employee_id |-> e, leave_type |-> "vacation",
     start_date |-> s, end_date |-> en, reason |-> "family", status |-> status,
     created_at |-> created_at]

\* rows that creation (start_date >= the day of creation, end_date >= start_date)
\* and status updates leave behind
StoredLeaves ==
    { StoredLeave(1, "e1", "2025-12-31", "2025-12-31", "approved", "2025-12-30T09:00:00"),
      StoredLeave(1, "e1", "2025-12-31", "2026-01-01", "approved", "2025-12-30T09:00:00"),
      StoredLeave(1, "e1", "2026-01-01", "2026-01-15", "approved", "2025-12-30T09:00:00"),
      StoredLeave(2, "e1", "2026-01-01", "2026-01-15", "approved", "2026-01-01T09:00:00"),
      StoredLeave(3, "e1", "2026-01-01", "2026-01-15", "pending", "2026-01-01T09:00:00"),
      StoredLeave(1, "e1", "2026-01-01", "2026-01-01", "rejected", "2026-01-01T09:00:00"),
      StoredLeave(1, "e2", "2026-01-01", "2026-01-15", "approved", "2026-01-01T09:00:00") }

\* total_allocated = 20
TotalAllocated == 20

RECURSIVE SumDays(_, _)
\* the loop total_used += days over the rows of a response
SumDays(rows, days) ==
    IF rows = {} THEN 0
    ELSE LET r == CHOOSE x \in rows : TRUE
         IN  days[r] + SumDays(rows \ {r}, days)

Max(a, b) == IF a >= b THEN a ELSE b

\* app.py: days = (end_date - start_date).days + 1
RequestDays(r) == FromIso(r.end_date) - FromIso(r.start_date) + 1

\* app.py: .eq('employee_id', user_id).eq('status', 'approved')
\*         .gte('start_date', year-01-01).lte('end_date', year-12-31)
LeaveUsedRows(e) ==
    {r \in leave_requests :
        /\ r.employee_id = e /\ r.status = "approved"
        /\ FromIso(r.start_date) >= YearStart(CurrentYear)
        /\ FromIso(r.end_date) <= YearEnd(CurrentYear)}

BalanceReport(fn, e, balance) ==
    [fn |-> fn, employee_id |-> e, year |-> CurrentYear, leave_balance |-> balance]

StatsReport(fn, e, start, end, present_days, days, rate) ==
    [fn |-> fn, employee_id |-> e, start |-> start, end |-> end,
     present_days |-> present_days, days |-> days, attendance_rate |-> rate]

LeaveBalance(e) == Max(0, TotalAllocated - SumDays(LeaveUsedRows(e), [r \in leave_requests |-> RequestDays(r)]))

\* app.py get_employee_stats: present or completed rows of the month so far
\* over the days of the calendar month, and the leave balance
get_employee_stats(e) ==
    /\ LET present_days == Cardinality(RowsWithStatus(e, MonthStart(today), today,
                                                      {"present", "completed"}))
           total_days_in_month == LastDay(today)
           attendance_rate == IF total_days_in_month > 0
                                THEN Percent(present_days, total_days_in_month, 10) ELSE 0
       IN  resp' = StatsReport("get_employee_stats", e, MonthStart(today), MonthEnd(today),
                               present_days, total_days_in_month, attendance_rate)
                   @@ BalanceReport("get_employee_stats", e, LeaveBalance(e))
    /\ UNCHANGED <<today, attendance, leave_requests, notified, inflight, employees>>

\* the count without the + 1
ExclusiveDays(start_date, end_date) ==
    IF start_date \in DateStrings \cup IsoDates /\ end_date \in DateStrings \cup IsoDates
      THEN FromIso(end_date) - FromIso(start_date)
      ELSE 0

\* employee_leave.py calculate_leave_days: 0 when a date does not parse
calculate_leave_days(start_date, end_date) ==
    IF start_date \in DateStrings \cup IsoDates /\ end_date \in DateStrings \cup IsoDates
      THEN FromIso(end_date) - FromIso(start_date) + 1
      ELSE 0
LeaveDays(r) == calculate_leave_days(r.start_date, r.end_date)

\* employee_leave.py get_leave_stats: the approved rows created in the current year
ApprovedThisYear(e) ==
    {r \in leave_requests :
        /\ r.employee_id = e
        /\ StartsWithYear(r.created_at, CurrentYear)
        /\ r.status = "approved"}

get_leave_stats(e) ==
    /\ resp' = BalanceReport("get_leave_stats", e,
                             Max(0, 20 - SumDays(ApprovedThisYear(e), [r \in leave_requests |-> LeaveDays(r)])))
    /\ UNCHANGED <<today, attendance, leave_requests, notified, inflight, employees>>

\* the clock passes midnight of 2025-12-31
NewYear ==
    /\ today = 365
    /\ today' = 366
    /\ UNCHANGED <<attendance, leave_requests, resp, notified, inflight, employees>>

InitLeaveReports ==
    /\ today = 365
    /\ attendance = {}
    /\ leave_requests \in {t \in SUBSET StoredLeaves : Cardinality(t) <= MaxLeaves}
    /\ resp = Ok(200, "start")
    /\ notified = NoNotification
    /\ inflight = [p \in Procs |-> Idle]
    /\ employees = InitialEmployees

NextLeaveReports ==
    \/ NewYear
    \/ \E e \in Employees : get_employee_stats(e)
    \/ \E e \in Employees : get_leave_stats(e)

SpecLeaveReports == InitLeaveReports /\ [][NextLeaveReports]_vars

(***************************************************************************)
(* Attendance statistics.  The rows are ones the clock, self-mark and      *)
(* admin-mark handlers have stored in the first days of February 2025:     *)
(* day 32 is Saturday 2025-02-01, day 34 Monday 2025-02-03.                *)
(***************************************************************************)
StoredAttendance(e, d, status, clock_in, clock_out, hours) ==
    [id |-> <<e, d, 1>>, employee_id |-> e, date |-> d, status |-> status,
     clock_in_time |-> clock_in, clock_out_time |-> clock_out, total_hours |-> hours,
     created_at |-> Null]
ClockedInAt(e, d) == StoredAttendance(e, d, "present", Some([date |-> d, min |-> 540]), Null, Null)
ClockedOutAt(e, d) ==
    StoredAttendance(e, d, "completed", Some([date |-> d, min |-> 540]),
                     Some([date |-> d, min |-> 550]), Some(TotalHours(10)))
MarkedAt(e, d, status) == StoredAttendance(e, d, status, Null, Null, Null)

StoredAttendances ==
    { ClockedInAt("e1", 32), ClockedOutAt("e1", 32),
      ClockedInAt("e1", 34), ClockedOutAt("e1", 34), MarkedAt("e1", 34, "absent"),
      ClockedOutAt("e1", 35), MarkedAt("e1", 35, "late"),
      ClockedInAt("e2", 34), ClockedOutAt("e2", 34) }

\* the periods an administrator asks a report for; <<35, 34>> ends before it starts
ReportPeriods == {<<32, 33>>, <<34, 35>>, <<32, 35>>, <<35, 34>>, <<34, 34>>, <<32, 34>>}

\* admin_attendance.py attendance_report: the entry of one employee
attendance_report(e, start_date, end_date) ==
    /\ LET present_days == Cardinality(RowsWithStatus(e, start_date, end_date, {"present"}))
           working_days == WorkingDays(start_date, end_date)
           attendance_percentage == IF working_days > 0
                                      THEN Percent(present_days, working_days, 100) ELSE 0
       IN  resp' = StatsReport("attendance_report", e, start_date, end_date,
                               present_days, working_days, attendance_percentage)
    /\ UNCHANGED <<today, attendance, leave_requests, notified, inflight, employees>>

\* app.py get_employee_statistics: the month so far, over its working days
get_employee_statistics(e) ==
    /\ LET working_days == WorkingDays(MonthStart(today), today)
           present_days == Cardinality(RowsWithStatus(e, MonthStart(today), today,
                                                      {"present", "completed"}))
           attendance_rate == IF working_days > 0
                                THEN Percent(present_days, working_days, 10) ELSE 0
       IN  resp' = StatsReport("get_employee_statistics", e, MonthStart(today), today,
                               present_days, working_days, attendance_rate)
                   @@ BalanceReport("get_employee_statistics", e, LeaveBalance(e))
    /\ UNCHANGED <<today, attendance, leave_requests, notified, inflight, employees>>

\* employee_attendance.py get_attendance_stats: the present rows of the whole
\* month over the days of the calendar month
get_attendance_stats(e) ==
    /\ LET present_days == Cardinality(RowsWithStatus(e, MonthStart(today), MonthEnd(today),
                                                      {"present"}))
           total_days == LastDay(today)
           attendance_rate == IF total_days > 0 THEN Percent(present_days, total_days, 10) ELSE 0
       IN  resp' = StatsReport("get_attendance_stats", e, MonthStart(today), MonthEnd(today),
                               present_days, total_days, attendance_rate)
    /\ UNCHANGED <<today, attendance, leave_requests, notified, inflight, employees>>

\* admin_dashboard.py get_overall_attendance_rate: all employees, the month so far
get_overall_attendance_rate ==
    /\ LET working_days == WorkingDays(MonthStart(today), today)
           total_present == Cardinality(UNION {RowsWithStatus(e, MonthStart(today), today,
                                                              {"present"}) : e \in Employees})
           total_possible == Cardinality(Employees) * working_days
           rate == IF Employees = {} \/ working_days = 0 \/ total_possible = 0
                     THEN 0 ELSE Percent(total_present, total_possible, 10)
       IN  resp' = StatsReport("get_overall_attendance_rate", "all", MonthStart(today), today,
                               total_present, total_possible, rate)
    /\ UNCHANGED <<today, attendance, leave_requests, notified, inflight, employees>>

\* one row at most for an employee and a date, none dated after today
InitAttendanceReports ==
    /\ today \in {32, 33, 34, 35}
    /\ attendance \in {t \in SUBSET StoredAttendances :
                          /\ Cardinality(t) <= MaxRows
                          /\ \A r \in t : r.date <= today
                          /\ \A r, q \in t :
                                (r.employee_id = q.employee_id /\ r.date = q.date) => r = q}
    /\ leave_requests = {}
    /\ resp = Ok(200, "start")
    /\ notified = NoNotification
    /\ inflight = [p \in Procs |-> Idle]
    /\ employees = InitialEmployees

NextAttendanceReports ==
    \/ \E e \in Employees, period \in ReportPeriods : attendance_report(e, period[1], period[2])
    \/ \E e \in Employees : get_employee_statistics(e)
    \/ \E e \in Employees : get_attendance_stats(e)
    \/ \E e \in Employees : get_employee_stats(e)
    \/ get_overall_attendance_rate

SpecAttendanceReports == InitAttendanceReports /\ [][NextAttendanceReports]_vars

(***************************************************************************)
(* employee_management.py: the admin's endpoints on table employees, and   *)
(* the session checks in front of every admin mutation endpoint.           *)
(***************************************************************************)
MaxEmployees == 3   \* cap on the rows of table employees

\* the Flask session: user_id is Missing when 'user_id' is not in the session
NoSession == [user_id |-> Missing, user_role |-> Missing]
EmployeeSession == [user_id |-> "e1", user_role |-> "employee"]
AdminSession == [user_id |-> "a1", user_role |-> "admin"]
Sessions == {NoSession, EmployeeSession, AdminSession}

\* redirect(url_for('login')): a 302 without a JSON body
Redirect(location) == [success |-> FALSE, code |-> 302, body |-> location]

\* require_admin_api: the response that ends the request, or Null
require_admin_api(session) ==
    IF session.user_id = Missing THEN Some(Err(401, "Authentication required"))
    ELSE IF session.user_role # "admin" THEN Some(Err(403, "Admin privileges required"))
    ELSE Null

\* the first lines of create_leave_request, update_leave_status, delete_leave_request
LeaveAdminCheck(session) ==
    IF session.user_id = Missing THEN Some(Err(401, "Unauthorized"))
    ELSE IF session.user_role # "admin" THEN Some(Err(403, "Admin privileges required"))
    ELSE Null

\* admin_attendance.py admin_required
admin_required(session) ==
    IF session.user_id = Missing \/ session.user_role # "admin"
      THEN Some(Redirect("login"))
      ELSE Null

\* the request ends at the session check: nothing is read or written
Refused(answer) ==
    /\ resp' = The(answer)
    /\ notified' = NoNotification
    /\ UNCHANGED <<today, attendance, leave_requests, inflight, employees>>

\* the emails a client sends, and str.strip().lower() of each
RawEmails == {"ana@x.com", " Ana@X.com", "cy@x.com"}
Normalise(email) == IF email = " Ana@X.com" THEN "ana@x.com" ELSE email

\* str(uuid.uuid4()): an id no row has
FreshIds == {"e3", "e4", "e5", "e6"}
NewEmployeeId == CHOOSE id \in FreshIds : id \notin Employees

\* .eq('email', data['email']): the rows whose email is the string as sent
ExistingByEmail(email) == {r \in employees : r.email = email}
\* a lookup by the trimmed, lower-cased email
ExistingByNormalisedEmail(email) == {r \in employees : r.email = Normalise(email)}

AddBodies == [name : {"Cy", Missing}, email : RawEmails \cup {Missing}, password : {"pw"}]

add_employee(session, data) ==
    IF require_admin_api(session) # Null THEN Refused(require_admin_api(session))
    ELSE
    /\ IF data.name = Missing THEN
            /\ employees' = employees /\ resp' = Err(400, "Field \"name\" is required")
       ELSE IF data.email = Missing THEN
            /\ employees' = employees /\ resp' = Err(400, "Field \"email\" is required")
       ELSE IF ExistingByEmail(data.email) # {} THEN
            /\ employees' = employees
            /\ resp' = Err(400, "Employee with this email already exists")
       ELSE /\ Cardinality(employees) < MaxEmployees
            /\ employees' = employees \cup
                    {EmployeeRow(NewEmployeeId, data.name, Normalise(data.email))}
            /\ resp' = Ok(200, "Employee added successfully")
    /\ notified' = NoNotification
    /\ UNCHANGED <<today, attendance, leave_requests, inflight>>

UpdateBodies == [name : {"Ana B", Missing}, email : RawEmails \cup {Missing}]

\* the update of update_employee: the email only when it differs from the stored one
UpdatedRow(row, data, with_email) ==
    IF with_email THEN [row EXCEPT !.name = data.name, !.email = Normalise(data.email)]
    ELSE [row EXCEPT !.name = data.name]

update_employee(session, employee_id, data) ==
    IF require_admin_api(session) # Null THEN Refused(require_admin_api(session))
    ELSE
    /\ LET existing == {r \in employees : r.id = employee_id}
           current == CHOOSE r \in existing : TRUE
           with_email == data.email # Missing /\ Normalise(data.email) # current.email
       IN  IF data.name = Missing THEN
                /\ employees' = employees /\ resp' = Err(400, "Name is required")
           ELSE IF existing = {} THEN
                /\ employees' = employees /\ resp' = Err(404, "Employee not found")
           ELSE IF with_email /\ ExistingByNormalisedEmail(data.email) # {} THEN
                /\ employees' = employees
                /\ resp' = Err(400, "Email already exists for another employee")
           ELSE /\ employees' = {IF r.id = employee_id THEN UpdatedRow(r, data, with_email)
                                  ELSE r : r \in employees}
                /\ resp' = Ok(200, "Employee updated successfully")
    /\ notified' = NoNotification
    /\ UNCHANGED <<today, attendance, leave_requests, inflight>>

delete_employee(session, employee_id) ==
    IF require_admin_api(session) # Null THEN Refused(require_admin_api(session))
    ELSE
    /\ IF \A r \in employees : r.id # employee_id
         THEN /\ employees' = employees /\ resp' = Err(404, "Employee not found")
         ELSE /\ employees' = {r \in employees : r.id # employee_id}
              /\ resp' = Ok(200, "Employee deleted successfully")
    /\ notified' = NoNotification
    /\ UNCHANGED <<today, attendance, leave_requests, inflight>>

ImageBodies == [image_data : {"AAAA", Missing}, employee_id : {"e1", "e9"}]

upload_image(session, data) ==
    IF require_admin_api(session) # Null THEN Refused(require_admin_api(session))
    ELSE
    /\ IF data.image_data = Missing THEN
            /\ employees' = employees
            /\ resp' = Err(400, "Image data and employee ID are required")
       ELSE IF \A r \in employees : r.id # data.employee_id THEN
            /\ employees' = employees /\ resp' = Err(404, "Employee not found")
       ELSE /\ employees' = {IF r.id = data.employee_id
                                THEN [r EXCEPT !.image = "data:image/jpeg;base64," \o data.image_data]
                                ELSE r : r \in employees}
            /\ resp' = Ok(200, "Image uploaded successfully")
    /\ notified' = NoNotification
    /\ UNCHANGED <<today, attendance, leave_requests, inflight>>

EmployeeIdInputs == {"e1", "e2", "e3", "e9"}

NextEmployees ==
    \/ \E session \in Sessions, data \in AddBodies : add_employee(session, data)
    \/ \E session \in Sessions, id \in EmployeeIdInputs, data \in UpdateBodies :
          update_employee(session, id, data)
    \/ \E session \in Sessions, id \in EmployeeIdInputs : delete_employee(session, id)
    \/ \E session \in Sessions, data \in ImageBodies : upload_image(session, data)

SpecEmployees == Init /\ [][NextEmployees]_vars

(***************************************************************************)
(* Every admin mutation endpoint as a client reaches it: the session check *)
(* first, the handler after it.                                            *)
(***************************************************************************)
mark_attendance_route(session, e, status, d) ==
    IF admin_required(session) # Null THEN Refused(admin_required(session))
    ELSE admin_mark_attendance(e, status, d)

bulk_mark_attendance_route(session, ids, status, d) ==
    IF admin_required(session) # Null THEN Refused(admin_required(session))
    ELSE bulk_mark_attendance(ids, status, d)

delete_attendance_route(session, id) ==
    IF admin_required(session) # Null THEN Refused(admin_required(session))
    ELSE delete_attendance(id)

create_leave_request_route(session, data, mail) ==
    IF LeaveAdminCheck(session) # Null THEN Refused(LeaveAdminCheck(session))
    ELSE create_leave_request(data, mail)

update_leave_status_route(session, request_id, new_status, mail) ==
    IF LeaveAdminCheck(session) # Null THEN Refused(LeaveAdminCheck(session))
    ELSE update_leave_status(request_id, new_status, mail)

delete_leave_request_route(session, request_id) ==
    IF LeaveAdminCheck(session) # Null THEN Refused(LeaveAdminCheck(session))
    ELSE delete_leave_request(request_id)

\* one request of each kind
RouteMark == <<"e1", "late", 1>>
RouteBulk == <<<<"e1", "e2">>, "absent", 1>>
RouteLeave == WithEmployee("e1", Body("vacation", "2025-01-01", "2025-01-02", "family"))
RouteAdd == [name |-> "Cy", email |-> "cy@x.com", password |-> "pw"]
RouteUpdate == [name |-> "Ana B", email |-> Missing]
RouteImage == [image_data |-> "AAAA", employee_id |-> "e1"]

AttendanceMutation(session) ==
    \/ mark_attendance_route(session, RouteMark[1], RouteMark[2], RouteMark[3])
    \/ bulk_mark_attendance_route(session, RouteBulk[1], RouteBulk[2], RouteBulk[3])
    \/ \E id \in {r.id : r \in attendance} \cup {NoAttendanceId} :
          delete_attendance_route(session, id)

LeaveMutation(session) ==
    \/ create_leave_request_route(session, RouteLeave, Delivered)
    \/ \E id \in LeaveIds \cup {NoLeaveId} :
          update_leave_status_route(session, id, "approved", Delivered)
    \/ \E id \in LeaveIds \cup {NoLeaveId} : delete_leave_request_route(session, id)

EmployeeMutation(session) ==
    \/ add_employee(session, RouteAdd)
    \/ update_employee(session, "e1", RouteUpdate)
    \/ delete_employee(session, "e2")
    \/ upload_image(session, RouteImage)

NextAdminRoutes ==
    \/ \E session \in Sessions : AttendanceMutation(session)
    \/ \E session \in Sessions : LeaveMutation(session)
    \/ \E session \in Sessions : EmployeeMutation(session)

SpecAdminRoutes == Init /\ [][NextAdminRoutes]_vars

(***************************************************************************)
(* The attendance ledger: claims.                                          *)
(***************************************************************************)
SameKey(r1, r2) == r1.employee_id = r2.employee_id /\ r1.date = r2.date
ClockBodies == {"clock_in", "clock_out", "Attendance already completed for today"}
IsClockEvent(e, t) == resp'.body \in ClockBodies /\ employee_clock(e, t)
RowsAt(e, d) == {r \in attendance : r.employee_id = e /\ r.date = d}
OtherRows(table, e, d) == {r \in table : r.employee_id # e \/ r.date # d}
Completed(r) == r.clock_in_time # Null /\ r.clock_out_time # Null
AlreadyCompleted == Err(400, "Attendance already completed for today")

\* C3: with the handlers run one at a time, the attendance table holds at most
\* one row per (employee_id, date).
C3_OneRowPerEmployeeDate ==
    \A r1, r2 \in attendance : SameKey(r1, r2) => r1 = r2

\* A row that a clock-in, an admin mark and a clock-out have all written.
C3_Witness ==
    \E r \in attendance :
        /\ Completed(r)
        /\ r.status \in {"absent", "late"}
        /\ C3_OneRowPerEmployeeDate

\* C4: the first clock event an employee sends for a date is accepted as a
\* clock-in, whatever marks preceded it: it answers clock_in and leaves a row of
\* (employee, date) with clock_in_time the event's timestamp, status present and
\* no clock_out_time.  Before an employee's first clock event for a date no row
\* of (employee, date) carries a clock time, since only clock events write one.
NoClockTimeYet(e, d) ==
    \A r \in RowsAt(e, d) : r.clock_in_time = Null /\ r.clock_out_time = Null

C4_FirstClockEventIsClockIn ==
    [][\A e \in Employees, t \in Timestamps :
          (IsClockEvent(e, t) /\ NoClockTimeYet(e, t.date)) =>
              /\ resp' = Ok(200, "clock_in")
              /\ \E r \in attendance' :
                    /\ r.employee_id = e /\ r.date = t.date
                    /\ r.clock_in_time = Some(t)
                    /\ r.status = "present"
                    /\ r.clock_out_time = Null]_vars

\* What a clock event may do to a row it changes: the row was of the event's
\* (employee, date) with clock_in_time set and clock_out_time unset; afterwards
\* clock_out_time is the event's timestamp, status is completed, clock_in_time
\* is as before and total_hours satisfies Hours(minutes elapsed, total_hours).
ClockOutTransition(e, t, Hours(_, _)) ==
    /\ \A r \in attendance : \E r2 \in attendance' : r2.id = r.id
    /\ \A r \in attendance, r2 \in attendance' :
          (r2.id = r.id /\ r2 # r) =>
              /\ r.employee_id = e /\ r.date = t.date
              /\ r.clock_in_time # Null /\ r.clock_out_time = Null
              /\ r2 = [r EXCEPT !.clock_out_time = Some(t),
                                !.total_hours = r2.total_hours,
                                !.status = "completed"]
              /\ r2.total_hours # Null
              /\ Hours(MinutesBetween(The(r.clock_in_time), t), The(r2.total_hours))
    /\ \A r2 \in attendance' :
          (\A r \in attendance : r.id # r2.id) => r2.clock_out_time = Null

\* total_hours (hundredths of an hour) is exactly the elapsed time
ExactHours(minutes, hundredths) == hundredths * 60 = minutes * 100
\* total_hours is the elapsed time rounded to two decimals: within half a hundredth
RoundedHours(minutes, hundredths) ==
    /\ hundredths * 60 - minutes * 100 <= 30
    /\ minutes * 100 - hundredths * 60 <= 30

\* C5, as claimed: a clock event sets clock_out_time, total_hours and
\* status=completed only on an open row of (employee, date), and total_hours
\* equals the elapsed time between clock_in_time and clock_out_time in hours.
C5_ClockOutExactHours ==
    [][\A e \in Employees, t \in Timestamps :
          IsClockEvent(e, t) => ClockOutTransition(e, t, ExactHours)]_vars

\* C5, amended: the same, with total_hours the elapsed hours rounded to two
\* decimals (09:00 -> 09:10 gives 0.17).
C5_ClockOutRoundedHours ==
    [][\A e \in Employees, t \in Timestamps :
          IsClockEvent(e, t) => ClockOutTransition(e, t, RoundedHours)]_vars

\* A clock-out ten minutes after the clock-in: 0.17 hours.
C5_Witness ==
    /\ resp = Ok(200, "clock_out")
    /\ \E r \in attendance :
          /\ Completed(r)
          /\ MinutesBetween(The(r.clock_in_time), The(r.clock_out_time)) = 10
          /\ r.total_hours = Some(17)

\* C6: a clock event for an (employee, date) whose row is COMPLETED is rejected
\* with the "already completed" error and leaves the attendance table as it was.
C6_ThirdClockEventRejected ==
    [][\A e \in Employees, t \in Timestamps :
          (IsClockEvent(e, t) /\ \E r \in RowsAt(e, t.date) : Completed(r)) =>
              /\ resp' = AlreadyCompleted
              /\ attendance' = attendance]_vars

\* The rejection was answered and every row of the table is COMPLETED.
C6_Witness ==
    /\ resp = AlreadyCompleted
    /\ attendance # {}
    /\ \A r \in attendance : Completed(r) /\ r.status = "completed"

\* C7: a clock event on date d reads and writes only the row of (employee, d):
\* every row of another employee or another date is left as it was, no such row
\* appears, and when (employee, d) has no row the event is a fresh clock-in,
\* whether or not an earlier date's row of the employee is still CLOCKED_IN.
C7_ClockEventTouchesOnlyItsDate ==
    [][\A e \in Employees, t \in Timestamps :
          IsClockEvent(e, t) =>
              /\ OtherRows(attendance', e, t.date) = OtherRows(attendance, e, t.date)
              /\ RowsAt(e, t.date) = {} =>
                    /\ resp' = Ok(200, "clock_in")
                    /\ \E r \in attendance' \ attendance :
                          /\ r.employee_id = e /\ r.date = t.date
                          /\ r.clock_in_time = Some(t) /\ r.clock_out_time = Null]_vars

\* A clock-in was answered while an earlier date's row of the same employee is
\* still CLOCKED_IN beside the later date's row.
C7_Witness ==
    /\ resp = Ok(200, "clock_in")
    /\ \E r1, r2 \in attendance :
          /\ r1.employee_id = r2.employee_id /\ r1.date < r2.date
          /\ r1.clock_in_time # Null /\ r1.clock_out_time = Null /\ r1.status = "present"
          /\ r2.clock_in_time # Null /\ r2.clock_out_time = Null
          /\ notified = <<[employee_id |-> r2.employee_id, title |-> "Clock In Successful"]>>

\* the table without its created_at column
StatusBearing(table) == {[r EXCEPT !.created_at = Null] : r \in table}
KeyRows(table, e, d) == {r \in table : r.employee_id = e /\ r.date = d}

\* What C13 says of the table `once' that an accepted mark of (e, d, status)
\* left and the table `twice' that the same mark, made again, leaves.
SecondMarkChangesNothing(once, twice, e, d, status) ==
    /\ Cardinality(KeyRows(twice, e, d)) = 1
    /\ \A r \in KeyRows(twice, e, d) : r.status = status /\ r.created_at = Some(today)
    /\ StatusBearing(twice) = StatusBearing(once)

\* the marks mark_attendance and bulk_mark_attendance accept today
AcceptedMarks ==
    {in \in AdminMarkInputs : in[1] \in Employees /\ in[2] \in MarkStatuses /\ in[3] <= today}
AcceptedBulkMarks == {in \in BulkMarkInputs : in[2] \in MarkStatuses /\ in[3] <= today}

\* C13: admin mark-attendance is an idempotent upsert.  In every reachable
\* state, for every mark of (employee, date, status) the handler accepts, the
\* mark made twice in a row leaves exactly one row of (employee, date), with
\* that status and the created_at of the second write, and the table is
\* otherwise as after the first mark.  The same holds of every employee a
\* bulk mark names.
C13_MarkTwiceIsMarkOnce ==
    /\ \A in \in AcceptedMarks :
          LET once == Upsert(attendance, in[1], in[3], in[2]) IN
          SecondMarkChangesNothing(once, Upsert(once, in[1], in[3], in[2]),
                                   in[1], in[3], in[2])
    /\ \A in \in AcceptedBulkMarks :
          LET once == BulkLoop(attendance, in[1], in[2], in[3]) IN
          \A i \in 1..Len(in[1]) :
              in[1][i] \in Employees =>
                  SecondMarkChangesNothing(once, BulkLoop(once, in[1], in[2], in[3]),
                                           in[1][i], in[3], in[2])

\* A mark has updated a row that an earlier admin mark inserted on an earlier
\* day: the row carries the created_at of the second write.
C13_Witness ==
    /\ resp = Message(TRUE)
    /\ \E r \in attendance :
          /\ r.date < today /\ r.created_at = Some(today)
          /\ r.status = "absent" /\ r.clock_in_time = Null
          /\ Cardinality(KeyRows(attendance, r.employee_id, r.date)) = 1

\* What C14 says a mark of the employees es for date d does to the table: a row
\* of a marked (employee, d) changes in status and created_at only, every other
\* row stays, and a row appears only for a marked (employee, d) that had none.
OnlyUpserted(es, d, status) ==
    /\ \A r \in attendance :
          IF r.employee_id \in es /\ r.date = d
            THEN \E r2 \in attendance' :
                    r2 = [r EXCEPT !.status = status, !.created_at = r2.created_at]
            ELSE r \in attendance'
    /\ \A r2 \in attendance' :
          (\A r \in attendance : r.id # r2.id) =>
              /\ r2.employee_id \in es /\ r2.date = d /\ r2.status = status
              /\ KeyRows(attendance, r2.employee_id, d) = {}
              /\ r2.clock_in_time = Null /\ r2.clock_out_time = Null
    /\ \A e \in es : Cardinality(KeyRows(attendance', e, d)) =
                          IF KeyRows(attendance, e, d) = {} THEN 1
                          ELSE Cardinality(KeyRows(attendance, e, d))
Listed(ids) == {ids[i] : i \in 1..Len(ids)} \cap Employees

\* C14: admin mark-attendance and bulk-mark with a date later than today
\* answer a failure and leave the attendance table as it was; with a date that
\* is not later they insert a row where (employee, date) has none and otherwise
\* change only status and created_at of the existing row.
C14_FutureRejectedElseUpsert ==
    [][/\ \A in \in AdminMarkInputs :
             IF in[3] > today
               THEN (resp'.success \/ attendance' # attendance) =>
                        ~admin_mark_attendance(in[1], in[2], in[3])
               ELSE (/\ resp' = Message(TRUE)
                     /\ admin_mark_attendance(in[1], in[2], in[3]))
                        => OnlyUpserted({in[1]}, in[3], in[2])
       /\ \A in \in BulkMarkInputs :
             IF in[3] > today
               THEN (resp'.success \/ attendance' # attendance) =>
                        ~bulk_mark_attendance(in[1], in[2], in[3])
               ELSE (/\ resp' = Message(TRUE)
                     /\ bulk_mark_attendance(in[1], in[2], in[3]))
                        => OnlyUpserted(Listed(in[1]), in[3], in[2])]_vars

\* An admin mark has updated the row a clock-in inserted: status and
\* created_at are the mark's, the clock-in time is still there.
C14_Witness ==
    /\ resp = Message(TRUE)
    /\ \E r \in attendance :
          /\ r.clock_in_time # Null /\ r.clock_out_time = Null
          /\ r.status = "absent" /\ r.created_at = Some(today)

(***************************************************************************)
(* Leave requests: claims.                                                 *)
(***************************************************************************)
Decided == {"approved", "rejected"}
\* the inclusive ranges [s, en] and [row.start_date, row.end_date] share a day
SharesDay(s, en, row) ==
    \E d \in Dates :
        /\ ParseDate(s) <= d /\ d <= ParseDate(en)
        /\ ParseDate(row.start_date) <= d /\ d <= ParseDate(row.end_date)

\* C1: the only status transitions any operation performs are pending->approved
\* and pending->rejected; a request whose status is approved or rejected keeps
\* that status through every later operation.
C1_OnlyPendingIsDecided ==
    [][\A r \in leave_requests, r2 \in leave_requests' :
          (r2.id = r.id /\ r2.status # r.status) =>
              r.status = "pending" /\ r2.status \in Decided]_vars

\* C2: no employee has two distinct approved leave requests whose inclusive
\* date ranges share a day.
C2_NoOverlappingApproved ==
    \A r1, r2 \in leave_requests :
        (/\ r1 # r2
         /\ r1.employee_id = r2.employee_id
         /\ r1.status = "approved" /\ r2.status = "approved")
            => ~SharesDay(r1.start_date, r1.end_date, r2)

\* C8: an employee cancel deletes nothing but the request it names, and that
\* only when the request is the caller's and pending; a cancel of an approved
\* or rejected request answers an error and leaves the whole table as it was.
C8_CancelOnlyPending ==
    [][\A e \in Employees, id \in LeaveIds \cup {NoLeaveId} :
          cancel_leave_request(e, id) =>
              /\ leave_requests' \subseteq leave_requests
              /\ \A r \in leave_requests \ leave_requests' :
                    r.id = id /\ r.employee_id = e /\ r.status = "pending"
              /\ (\E r \in leave_requests : r.id = id /\ r.status \in Decided) =>
                    /\ ~resp'.success
                    /\ leave_requests' = leave_requests]_vars

\* A cancel of the caller's own decided request was answered with the error,
\* and the request is still there.
C8_Witness ==
    /\ resp = Err(400, "Can only cancel pending requests")
    /\ \E r \in leave_requests : r.status \in Decided

\* One of the three conditions C9 names holds of a creation of [s, en] for e.
CreationForbidden(e, data) ==
    \/ ParseDate(data.start_date) < today
    \/ ParseDate(data.end_date) < ParseDate(data.start_date)
    \/ \E r \in leave_requests :
          /\ r.employee_id = e /\ r.status # "rejected"
          /\ SharesDay(data.start_date, data.end_date, r)
Rejected == ~resp'.success /\ leave_requests' = leave_requests
DatesParse(data) == Parses(data.start_date) /\ Parses(data.end_date)

\* C9: a leave creation, by employee submit or by admin create, is rejected and
\* inserts no row whenever start_date < today, or end_date < start_date, or the
\* range shares a day with a pending or approved request of the same employee.
C9_CreationRejectedWhenForbidden ==
    [][/\ \A in \in SubmitInputs :
             (/\ submit_leave_request(in[1], in[2])
              /\ DatesParse(in[2])
              /\ CreationForbidden(in[1], in[2])) => Rejected
       /\ \A data \in CreateBodies :
             (/\ create_leave_request(data, Delivered)
              /\ DatesParse(data)
              /\ CreationForbidden(data.employee_id, data)) => Rejected]_vars

\* The place in C10's order of the first check a creation fails: 1 required
\* fields, 2 reason, 3 leave_type, 4 dates parse, 5 start_date >= today,
\* 6 end_date >= start_date, 7 no overlap; 8 when it passes them all.
FirstFailedCheck(e, data) ==
    IF Missing \in {e, data.leave_type, data.start_date, data.end_date} THEN 1
    ELSE IF data.reason = Missing THEN 2
    ELSE IF data.leave_type \notin ValidLeaveTypes THEN 3
    ELSE IF ~DatesParse(data) THEN 4
    ELSE IF ParseDate(data.start_date) < today THEN 5
    ELSE IF ParseDate(data.end_date) < ParseDate(data.start_date) THEN 6
    ELSE IF \E r \in leave_requests :
               /\ r.employee_id = e /\ r.status # "rejected"
               /\ SharesDay(data.start_date, data.end_date, r) THEN 7
    ELSE 8

\* The place in that order of the check a response reports.
AnsweredCheck(r) ==
    IF r.success THEN 8
    ELSE IF r.body \in {"Leave Type is required", "Start Date is required",
                        "End Date is required", "employee_id is required",
                        "leave_type is required", "start_date is required",
                        "end_date is required"} THEN 1
    ELSE IF r.body = "Reason is required" THEN 2
    ELSE IF r.body = "Invalid leave type" THEN 3
    ELSE IF r.body = "Invalid date format" THEN 4
    ELSE IF r.body = "Start date cannot be in the past" THEN 5
    ELSE IF r.body = "End date must be after start date" THEN 6
    ELSE IF r.body \in {"Leave request overlaps with existing request",
                        "Leave request overlaps with existing approved leave"} THEN 7
    ELSE 0

\* What C10 expects of a creation for e: the answer reports the first check
\* that fails and the table is as before, or every check passes and the request
\* is inserted with status pending.
InFixedOrder(e, data) ==
    /\ AnsweredCheck(resp') = FirstFailedCheck(e, data)
    /\ IF FirstFailedCheck(e, data) = 8
         THEN \E r \in leave_requests' \ leave_requests :
                 /\ r.employee_id = e /\ r.status = "pending"
                 /\ r.start_date = data.start_date /\ r.end_date = data.end_date
         ELSE leave_requests' = leave_requests

\* C10: both creation paths apply the checks in the order required fields,
\* reason, leave_type, dates parse, start_date >= today, end_date >= start_date,
\* no overlap, and insert with status pending a request that passes them all.
C10_ChecksInFixedOrder ==
    [][/\ \A in \in SubmitInputs :
             submit_leave_request(in[1], in[2]) => InFixedOrder(in[1], in[2])
       /\ \A data \in CreateBodies :
             (create_leave_request(data, Delivered) /\ data.employee_id # NoEmployee)
                 => InFixedOrder(data.employee_id, data)]_vars

(***************************************************************************)
(* Handlers side by side: claims.                                          *)
(***************************************************************************)
AttendanceWrite(p) == clock_write(p) \/ selfmark_write(p) \/ adminmark_write(p)
Duplicated(table, e, d) ==
    \E r1, r2 \in table :
        r1 # r2 /\ r1.employee_id = e /\ r2.employee_id = e /\ r1.date = d /\ r2.date = d

\* C11: the attendance check-then-insert is not atomic.  A handler whose select
\* found no row of (employee, date) inserts one at its write even when another
\* request has inserted a row of that key in between, so a state with two rows
\* of one (employee_id, date) is reached.
C11_StaleSelectInsertsDuplicate ==
    [][\A p \in Procs :
          (/\ AttendanceWrite(p)
           /\ inflight[p].seen = {}
           /\ RowsAt(inflight[p].e, inflight[p].d) # {})
              => Duplicated(attendance', inflight[p].e, inflight[p].d)]_vars

\* Two clock events of one employee for one date have both been answered
\* clock_in and have left two rows of that (employee_id, date).
C11_Witness ==
    /\ resp = Ok(200, "clock_in")
    /\ \A p \in Procs : inflight[p] = Idle
    /\ \E r1, r2 \in attendance :
          /\ r1 # r2 /\ SameKey(r1, r2)
          /\ r1.clock_in_time # Null /\ r2.clock_in_time # Null

OverlappingPending(table, e) ==
    \E r1, r2 \in table :
        /\ r1 # r2 /\ r1.employee_id = e /\ r2.employee_id = e
        /\ r1.status = "pending" /\ r2.status = "pending"
        /\ SharesDay(r1.start_date, r1.end_date, r2)

\* C12: the leave overlap check-then-insert is not atomic.  A submission whose
\* select returned no overlapping request is inserted at its write even when
\* another submission of the same employee has inserted an intersecting range in
\* between, so a state with two overlapping pending requests is reached.
C12_StaleOverlapCheckInserts ==
    [][\A p \in Procs :
          (/\ submit_write(p)
           /\ \A r \in inflight[p].seen :
                 ~SharesDay(inflight[p].data.start_date, inflight[p].data.end_date, r)
           /\ \E r \in leave_requests :
                 /\ r.employee_id = inflight[p].e /\ r.status = "pending"
                 /\ SharesDay(inflight[p].data.start_date, inflight[p].data.end_date, r))
              => /\ resp' = Ok(200, "Leave request submitted successfully!")
                 /\ OverlappingPending(leave_requests', inflight[p].e)]_vars

\* Two submissions of one employee for intersecting ranges have both been
\* accepted: two overlapping pending requests, at least one answered last.
C12_Witness ==
    /\ resp = Ok(200, "Leave request submitted successfully!")
    /\ \A p \in Procs : inflight[p] = Idle
    /\ \E e \in Employees : OverlappingPending(leave_requests, e)

(***************************************************************************)
(* Reports: claims.                                                        *)
(***************************************************************************)
\* C15's S: the inclusive day counts of the employee's approved requests whose
\* start_date lies in the year
ClaimedUsed(e, year) ==
    SumDays({r \in leave_requests :
                /\ r.employee_id = e /\ r.status = "approved"
                /\ FromIso(r.start_date) >= YearStart(year)
                /\ FromIso(r.start_date) <= YearEnd(year)},
            [r \in leave_requests |-> RequestDays(r)])

\* C15: the leave balance reported for an employee and a year is
\* max(0, 20 - S), S the sum of end_date - start_date + 1 over exactly the
\* employee's approved requests whose start_date lies in that year.
C15_BalanceIsAllocationLessApprovedDays ==
    "leave_balance" \in DOMAIN resp =>
        resp.leave_balance = Max(0, 20 - ClaimedUsed(resp.employee_id, resp.year))

\* C16: for start_date <= end_date the leave-day count is (end - start) in
\* days + 1; every stored request has a count of at least 1, and a request of
\* a single day counts 1.
C16_DayCountIsInclusive ==
    /\ \A s, en \in DateStrings \cup IsoDates :
          FromIso(s) <= FromIso(en) =>
              /\ calculate_leave_days(s, en) = (FromIso(en) - FromIso(s)) + 1
              /\ calculate_leave_days(s, en) = Cardinality(FromIso(s)..FromIso(en))
    /\ \A r \in leave_requests :
          /\ LeaveDays(r) >= 1
          /\ RequestDays(r) = LeaveDays(r)
          /\ r.start_date = r.end_date => LeaveDays(r) = 1

\* a request of two days and a request of one day are stored, the latest
\* submitted by its employee
C16_Witness ==
    /\ resp = Ok(200, "Leave request submitted successfully!")
    /\ \E r, q \in leave_requests :
          /\ r.start_date = "2025-01-01" /\ r.end_date = "2025-01-02"
          /\ LeaveDays(r) = 2
          /\ q.start_date = q.end_date /\ LeaveDays(q) = 1

IsAttendanceReport == "present_days" \in DOMAIN resp
ByWorkingDays == {"attendance_report", "get_employee_statistics"}

\* C17: attendance statistics count as present_days the records of the period
\* whose status is present or completed, and as working_days its Monday to
\* Friday dates; a completed day counts as present in every attendance-rate
\* computation, the admin report included.
C17_CompletedCountsAsPresent ==
    (IsAttendanceReport /\ resp.employee_id \in Employees) =>
        /\ resp.present_days =
               Cardinality(RowsWithStatus(resp.employee_id, resp.start, resp.end,
                                          {"present", "completed"}))
        /\ resp.fn \in ByWorkingDays => resp.days = WorkingDays(resp.start, resp.end)

NoWorkingDay(start, end) == \A d \in start..end : Weekday(d) \in {5, 6}
OverWorkingDays == {"attendance_report", "get_employee_statistics", "get_overall_attendance_rate"}

AfterAWrite ==
    resp'.body \in {"Leave request created successfully", "Leave request status updated",
                    "Internal server error"}
CreateWrites(data, mail) == CreateCheck(data) = "ok" /\ create_leave_request(data, mail)
UpdateWrites(id, st, mail) == update_leave_status(id, st, mail)

\* C19: when the write to leave_requests of an admin creation or status
\* update succeeds, the handler answers success and the row stays written,
\* whether the mail is sent, the SMTP exchange fails, the credentials are
\* missing or the insert into notifications fails.
C19_DeliveryNeverChangesResult ==
    [][AfterAWrite =>
         \A mail \in MailOutcomes :
            /\ \A data \in NotifyBodies :
                  CreateWrites(data, mail) =>
                     /\ resp' = Ok(200, "Leave request created successfully")
                     /\ \E r \in leave_requests' \ leave_requests :
                           /\ r.employee_id = data.employee_id /\ r.status = "pending"
                           /\ r.start_date = data.start_date /\ r.end_date = data.end_date
            /\ \A id \in LeaveIds, st \in LeaveStatuses :
                  UpdateWrites(id, st, mail) =>
                     /\ resp' = Ok(200, "Leave request status updated")
                     /\ \E r \in leave_requests' : r.id = id /\ r.status = st]_vars

\* a status update to approved was answered with success although no
\* notification row could be written
C19_Witness ==
    /\ resp = Ok(200, "Leave request status updated")
    /\ notified = NoNotification
    /\ \E r \in leave_requests : r.status = "approved"

EmailSent(mail) == mail.credentials /\ mail.smtp = "sent"

CreationAnswers == {"Leave request submitted successfully!", "Leave request created successfully"}

\* C21: every successful creation of a leave request, by the employee's submit
\* as by the admin's create, and every successful status update makes, within
\* the same request, one notification attempt addressed to the owner of the
\* request.
C21_SuccessIsFollowedByNotification ==
    [][/\ (today' = today /\ resp'.code = 200 /\ resp'.body \in CreationAnswers) =>
             /\ Len(notified') = 1
             /\ \E r \in leave_requests' \ leave_requests :
                   notified'[1].employee_id = r.employee_id
       /\ (today' = today /\ resp'.code = 200 /\ resp'.body = "Leave request status updated") =>
             /\ Len(notified') = 1
             /\ \E r \in leave_requests' :
                   /\ notified'[1].employee_id = r.employee_id
                   /\ notified'[1].title = r.status]_vars

(***************************************************************************)
(* Sessions and employee records: claims.                                  *)
(***************************************************************************)
AdminMutation(session) ==
    AttendanceMutation(session) \/ LeaveMutation(session) \/ EmployeeMutation(session)

\* C22: every admin mutation endpoint answers 401 without a session and 403
\* with a session whose role is not admin, and in both cases leaves tables
\* employees, attendance, leave_requests and notifications unchanged.
C22_NoAdminSessionIsRefused ==
    [][\A session \in {NoSession, EmployeeSession} :
          AdminMutation(session) =>
             /\ resp'.code = IF session = NoSession THEN 401 ELSE 403
             /\ employees' = employees
             /\ attendance' = attendance
             /\ leave_requests' = leave_requests
             /\ notified' = NoNotification]_vars

\* C23: after any sequence of add-employee and update-employee operations no
\* two employee records have the same stored email.
C23_StoredEmailsAreUnique ==
    \A r, q \in employees : r.email = q.email => r = q

(***************************************************************************)
(* The attendance ledger: further claims.                                  *)
(***************************************************************************)
\* C24: in every reachable state, admin marks and self-marks included, an
\* attendance record has status completed exactly when its clock_out_time is
\* set, and a record with clock_out_time set has clock_in_time set.
C24_CompletedIffClockedOut ==
    \A r \in attendance :
        /\ r.status = "completed" <=> r.clock_out_time # Null
        /\ r.clock_out_time # Null => r.clock_in_time # Null

\* C25: every completed attendance record has clock_out_time >= clock_in_time
\* and total_hours >= 0, whatever two timestamps of the same date the client
\* sent.
C25_ClockOutNotBeforeClockIn ==
    \A r \in attendance :
        r.status = "completed" =>
            /\ MinutesBetween(The(r.clock_in_time), The(r.clock_out_time)) >= 0
            /\ The(r.total_hours) >= 0

(***************************************************************************)
(* Handlers side by side: further claims.                                  *)
(***************************************************************************)
\* C26: when an employee's cancel and the admin's status update of the same
\* request are interleaved call by call, every request a cancel deletes is
\* pending at the moment of the delete.
C26_CancelDeletesOnlyPending ==
    [][\A p \in Procs :
          cancel_delete(p) =>
             \A r \in leave_requests \ leave_requests' : r.status = "pending"]_vars

\* C27: when two clock events of one employee for one date are interleaved
\* call by call, clock_out_time and total_hours are written at most once: no
\* clock event changes them on a record whose clock_out_time is set.
C27_ClockOutWrittenOnce ==
    [][\A p \in Procs :
          clock_write(p) =>
             \A r \in attendance :
                r.clock_out_time # Null =>
                   \E q \in attendance' :
                      /\ q.id = r.id
                      /\ q.clock_out_time = r.clock_out_time
                      /\ q.total_hours = r.total_hours]_vars

(***************************************************************************)
(* The overlap tests: claims.                                              *)
(***************************************************************************)
IsOverlapAnswer == "new_range" \in DOMAIN resp
\* the inclusive ranges share a day
RangesShareDay(new_range, existing_range) ==
    \E d \in OverlapDays :
        /\ new_range[1] <= d /\ d <= new_range[2]
        /\ existing_range[1] <= d /\ d <= existing_range[2]
WellFormed(range) == range[1] <= range[2]

\* C28: for ranges [s, e] and [s', e'] with s <= e and s' <= e', the test of
\* the employee submit, the test of the admin create and the three-clause
\* test of the dashboard leave form all answer true exactly when the
\* inclusive ranges share a day; ranges with a single common day overlap.
C28_OverlapTestsAgree ==
    (IsOverlapAnswer /\ WellFormed(resp.new_range) /\ WellFormed(resp.existing_range)) =>
        LET shared == RangesShareDay(resp.new_range, resp.existing_range) IN
        /\ resp.submit = shared
        /\ resp.admin_create = shared
        /\ resp.dashboard = shared

\* a range asked for that ends on the day a stored range starts, and no other
\* day in common: the three tests answer true
C28_Witness ==
    /\ IsOverlapAnswer
    /\ resp.new_range = <<1, 2>> /\ resp.existing_range = <<2, 4>>
    /\ resp.submit /\ resp.admin_create /\ resp.dashboard

(***************************************************************************)
(* The employee side: claims.                                              *)
(***************************************************************************)
\* the rows of a table a step wrote: inserted, deleted, or changed
Written(before, after) == (before \ after) \cup (after \ before)

\* an operation of the employee side, run with session['user_id'] = e
EmployeeOperation(e) ==
    \/ \E t \in OwnClockTimes : employee_clock(e, t)
    \/ employee_mark_attendance(e)
    \/ \E data \in OwnBodies : submit_leave_request(e, data)
    \/ \E id \in LeaveIds : cancel_leave_request(e, id)

\* C29: a cancel by session user A of a request owned by another employee B
\* answers not-found and leaves the request as it is, whatever its status;
\* and every employee-side operation (clock, self-mark, submit, cancel)
\* writes only rows whose employee_id is the session's user_id.
C29_EmployeesWriteOwnRowsOnly ==
    [][\A e \in Employees :
          /\ \A r \in leave_requests :
                (r.employee_id # e /\ cancel_leave_request(e, r.id)) =>
                    /\ resp' = Err(404, "Leave request not found")
                    /\ r \in leave_requests'
          /\ EmployeeOperation(e) =>
                /\ \A r \in Written(attendance, attendance') : r.employee_id = e
                /\ \A r \in Written(leave_requests, leave_requests') : r.employee_id = e]_vars

\* a cancel was answered not-found: each stored request is an employee's that
\* the other asked to cancel, one approved and one pending; and both
\* employees have attendance rows
C29_Witness ==
    /\ resp = Err(404, "Leave request not found")
    /\ \E r, q \in leave_requests :
          /\ r.employee_id = "e2" /\ r.status = "approved"
          /\ q.employee_id = "e1" /\ q.status = "pending"
    /\ \E r, q \in attendance :
          /\ r.employee_id = "e1" /\ r.status = "completed"
          /\ q.employee_id = "e2"

(***************************************************************************)
(* Attendance rates: claims.                                               *)
(***************************************************************************)
\* 100 per cent in the unit a report rounds to: hundredths in the admin
\* report, tenths elsewhere
FullRate(fn) == IF fn = "attendance_report" THEN 10000 ELSE 1000

\* C30: every attendance rate or percentage reported lies between 0 and 100
\* inclusive, in every state of the attendance table that clock events and
\* admin marks reach, records dated on Saturdays and Sundays included.
C30_RateWithinZeroAndHundred ==
    IsAttendanceReport =>
        /\ resp.attendance_rate >= 0
        /\ resp.attendance_rate <= FullRate(resp.fn)

====
